---- MODULE Spec2Model ----
(***************************************************************************)
(* Model of the sales dashboard component                                  *)
(* (src/src/components/dashboard/Dashboard.tsx): the fetch/normalise       *)
(* pipeline of cargarDatos, the three filter selectors and the derived     *)
(* views computed from the filtered record collection.                     *)
(*                                                                         *)
(* JavaScript values are modelled as records [t, n, d, s]:                 *)
(*   t  the typeof tag ("undefined", "null", "number", "string",           *)
(*      "boolean"),                                                        *)
(*   n/d the value of a number as an exact fraction (d = 0 is NaN; IEEE    *)
(*      rounding is not modelled), for a boolean n = 1 is true,            *)
(*   s  the characters of a string, one one-character string per element.  *)
(***************************************************************************)
EXTENDS Integers, Sequences, FiniteSets

VARIABLES
    datos,                \* useState<Venta[]>            (line 121)
    cargando,             \* useState(false)              (line 122)
    error,                \* useState<string | null>      (line 123)
    ultimaActualizacion,  \* useState<Date | null>        (line 124)
    filtroAno,            \* useState<FiltroAno>          (line 128)
    filtroVendedor,       \* useState<FiltroVendedor>     (line 129)
    filtroMes,            \* useState<FiltroMes>          (line 130)
    llamadas,             \* the activations of cargarDatos, in issue order:
                          \* where each stands (pc) and how many activations
                          \* had resumed when it was issued (previas)
    resueltas,            \* the activations that have resumed, in that order
    json,                 \* the response the last resumed activation received
    arg,                  \* argument of the pure function under evaluation
    ret                   \* its result

vars == <<datos, cargando, error, ultimaActualizacion, filtroAno,
          filtroVendedor, filtroMes, llamadas, resueltas, json, arg, ret>>

estadoComponente == <<datos, cargando, error, ultimaActualizacion, filtroAno,
                      filtroVendedor, filtroMes, llamadas, resueltas, json>>

-----------------------------------------------------------------------------
(* JavaScript values *)

Undef == [t |-> "undefined", n |-> 0, d |-> 1, s |-> <<>>]
Null == [t |-> "null", n |-> 0, d |-> 1, s |-> <<>>]
NaN == [t |-> "number", n |-> 0, d |-> 0, s |-> <<>>]
Str(s) == [t |-> "string", n |-> 0, d |-> 1, s |-> s]
Bool(b) == [t |-> "boolean", n |-> IF b THEN 1 ELSE 0, d |-> 1, s |-> <<>>]

Abs(x) == IF x < 0 THEN -x ELSE x

RECURSIVE MCD(_, _)
MCD(a, b) == IF b = 0 THEN a ELSE MCD(b, a % b)

\* the number n/d in lowest terms, d > 0
Frac(n, d) ==
    LET g == MCD(Abs(n), Abs(d))
        sg == IF d < 0 THEN -1 ELSE 1
    IN [t |-> "number", n |-> sg * (n \div g), d |-> sg * (d \div g), s |-> <<>>]

Num(n) == [t |-> "number", n |-> n, d |-> 1, s |-> <<>>]

EsNaN(x) == x.t = "number" /\ x.d = 0

\* a ?? b
Coalesce(a, b) == IF a.t \in {"undefined", "null"} THEN b ELSE a

\* a === b
IgualEstricto(a, b) ==
    /\ a.t = b.t
    /\ CASE a.t = "number" -> ~EsNaN(a) /\ ~EsNaN(b) /\ a.n = b.n /\ a.d = b.d
         [] a.t = "string" -> a.s = b.s
         [] a.t = "boolean" -> a.n = b.n
         [] OTHER -> TRUE

\* ToBoolean(a): false for undefined, null, "", 0, NaN and false
Truthy(a) ==
    CASE a.t = "number" -> a.d /= 0 /\ a.n /= 0
      [] a.t = "string" -> a.s /= <<>>
      [] a.t = "boolean" -> a.n = 1
      [] OTHER -> FALSE

\* arithmetic on numbers (NaN is contagious; division is only used with a
\* divisor the code has tested to be > 0)
Suma(a, b) ==
    IF EsNaN(a) \/ EsNaN(b) THEN NaN ELSE Frac(a.n * b.d + b.n * a.d, a.d * b.d)
Resta(a, b) ==
    IF EsNaN(a) \/ EsNaN(b) THEN NaN ELSE Frac(a.n * b.d - b.n * a.d, a.d * b.d)
Mult(a, b) ==
    IF EsNaN(a) \/ EsNaN(b) THEN NaN ELSE Frac(a.n * b.n, a.d * b.d)
Div(a, b) ==
    IF EsNaN(a) \/ EsNaN(b) \/ b.n = 0 THEN NaN ELSE Frac(a.n * b.d, a.d * b.n)
\* a > 0 (false for NaN)
Positivo(a) == a.t = "number" /\ a.d /= 0 /\ a.n > 0
\* a === 0
EsCero(a) == a.t = "number" /\ a.d /= 0 /\ a.n = 0

-----------------------------------------------------------------------------
(* Strings: sequences of one-character strings *)

Digitos == <<"0", "1", "2", "3", "4", "5", "6", "7", "8", "9">>
EsDigito(c) == \E i \in 1..10 : Digitos[i] = c
ValorDigito(c) == (CHOOSE i \in 1..10 : Digitos[i] = c) - 1
\* \s of a regular expression and the white space trim() removes
EsEspacio(c) == c \in {" ", "\t", "\n"}

RECURSIVE Quitar(_, _)
\* s.replace(/[cs]/g, ""): s without the characters of the set cs
Quitar(s, cs) ==
    IF s = <<>> THEN <<>>
    ELSE IF Head(s) \in cs THEN Quitar(Tail(s), cs)
    ELSE <<Head(s)>> \o Quitar(Tail(s), cs)

RECURSIVE Reemplazar(_, _, _)
\* s.replace(/a/g, b) for a character a and a string b
Reemplazar(s, a, b) ==
    IF s = <<>> THEN <<>>
    ELSE (IF Head(s) = a THEN b ELSE <<Head(s)>>) \o Reemplazar(Tail(s), a, b)

RECURSIVE TrimIzq(_)
TrimIzq(s) ==
    IF s /= <<>> /\ EsEspacio(Head(s)) THEN TrimIzq(Tail(s)) ELSE s
RECURSIVE TrimDer(_)
TrimDer(s) ==
    IF s /= <<>> /\ EsEspacio(s[Len(s)])
    THEN TrimDer(SubSeq(s, 1, Len(s) - 1)) ELSE s
\* s.trim()
Trim(s) == TrimDer(TrimIzq(s))

Minusculas == <<"a", "b", "c", "d", "e", "f", "g", "h", "i", "j", "k", "l", "m",
                "n", "o", "p", "q", "r", "s", "t", "u", "v", "w", "x", "y", "z">>
Mayusculas == <<"A", "B", "C", "D", "E", "F", "G", "H", "I", "J", "K", "L", "M",
                "N", "O", "P", "Q", "R", "S", "T", "U", "V", "W", "X", "Y", "Z">>
MayusculaDe(c) ==
    IF \E i \in 1..26 : Minusculas[i] = c
    THEN Mayusculas[CHOOSE i \in 1..26 : Minusculas[i] = c]
    ELSE c
\* s.toUpperCase()
ToUpperCase(s) == [i \in 1..Len(s) |-> MayusculaDe(s[i])]

RECURSIVE PrefijoDigitos(_)
\* the longest prefix of s made of decimal digits
PrefijoDigitos(s) ==
    IF s /= <<>> /\ EsDigito(Head(s))
    THEN <<Head(s)>> \o PrefijoDigitos(Tail(s)) ELSE <<>>

RECURSIVE ValorDigitos(_)
\* the natural number a string of digits denotes
ValorDigitos(ds) ==
    IF ds = <<>> THEN 0
    ELSE 10 * ValorDigitos(SubSeq(ds, 1, Len(ds) - 1)) + ValorDigito(ds[Len(ds)])

RECURSIVE Pot10(_)
Pot10(k) == IF k = 0 THEN 1 ELSE 10 * Pot10(k - 1)

RECURSIVE DigitosDe(_)
\* the decimal digits of a natural number
DigitosDe(k) ==
    IF k < 10 THEN <<Digitos[k + 1]>>
    ELSE DigitosDe(k \div 10) \o <<Digitos[(k % 10) + 1]>>

\* Number.prototype.toString / String(x) of a number; the model's numbers
\* that are turned into text are integers or NaN
NumACadena(x) ==
    IF EsNaN(x) THEN <<"N", "a", "N">>
    ELSE IF x.n < 0 THEN <<"-">> \o DigitosDe(-x.n)
    ELSE DigitosDe(x.n)

\* v.toString() of a value that is neither null nor undefined
ACadena(v) ==
    CASE v.t = "string" -> v.s
      [] v.t = "number" -> NumACadena(v)
      [] v.t = "boolean" ->
            IF v.n = 1 THEN <<"t", "r", "u", "e">> ELSE <<"f", "a", "l", "s", "e">>

\* the parts of the longest prefix of s that is a decimal literal:
\* [sign] digits [. digits] without exponent ("Infinity" and exponents use
\* letters, which end the prefix here as any other non-digit does)
LiteralDecimal(s) ==
    LET sg == IF s /= <<>> /\ Head(s) \in {"-", "+"} THEN 1 ELSE 0
        s1 == SubSeq(s, sg + 1, Len(s))
        ent == PrefijoDigitos(s1)
        s2 == SubSeq(s1, Len(ent) + 1, Len(s1))
        pt == s2 /= <<>> /\ Head(s2) = "."
        dec == IF pt THEN PrefijoDigitos(Tail(s2)) ELSE <<>>
    IN [neg |-> s /= <<>> /\ Head(s) = "-",
        ent |-> ent, dec |-> dec,
        largo |-> sg + Len(ent) + (IF pt /\ (ent /= <<>> \/ dec /= <<>>)
                                   THEN 1 + Len(dec) ELSE 0)]

ValorLiteral(l) ==
    LET m == ValorDigitos(l.ent \o l.dec)
    IN Frac(IF l.neg THEN -m ELSE m, Pot10(Len(l.dec)))

\* parseFloat(s): the number of the longest numeric prefix, NaN without one
ParseFloat(s) ==
    LET l == LiteralDecimal(TrimIzq(s))
    IN IF l.ent = <<>> /\ l.dec = <<>> THEN NaN ELSE ValorLiteral(l)

\* Number(v)
ANumero(v) ==
    CASE v.t = "number" -> v
      [] v.t = "boolean" -> Num(v.n)
      [] v.t = "null" -> Num(0)
      [] v.t = "undefined" -> NaN
      [] v.t = "string" ->
            LET s == Trim(v.s)
                l == LiteralDecimal(s)
            IN IF s = <<>> THEN Num(0)
               ELSE IF (l.ent = <<>> /\ l.dec = <<>>) \/ l.largo /= Len(s) THEN NaN
               ELSE ValorLiteral(l)

-----------------------------------------------------------------------------
(* numeroSeguro *)

numeroSeguro(v) ==
    IF v.t \in {"null", "undefined"} \/ (v.t = "string" /\ v.s \in {<<>>, <<"-">>})
    THEN Num(0)
    ELSE IF v.t = "number" THEN v
    ELSE LET limpio == Reemplazar(Quitar(Quitar(ACadena(v), {" ", "\t", "\n", "$", ","}),
                                         {"."}),
                                  ",", <<".">>)
             n == ParseFloat(limpio)
         IN IF EsNaN(n) THEN Num(0) ELSE n

-----------------------------------------------------------------------------
(* Raw records of a response and their normalisation (the map callback of  *)
(* cargarDatos).  An element of json.data is null or an object; an object  *)
(* is a function from every key the callback reads to a value, Undef for a *)
(* key the object does not have.                                            *)

Claves == {"id", "ano", "ANO", "año", "Año", "periodo", "PERIODO", "mes", "MES",
           "cod_ven", "COD_VEN", "vendedor", "VENDEDOR", "ventas", "VENTAS",
           "meta1", "META1", "meta", "META", "meta2", "META2",
           "cumplimiento1", "CUMPLIMIENTO1", "cumplimiento", "CUMPLIMIENTO",
           "cumplimiento2", "CUMPLIMIENTO2",
           "fecha_actualizacion", "FECHA_ACTUALIZACION"}

\* the object with the fields of the record f
Obj(f) == [nulo |-> FALSE,
           campos |-> [k \in Claves |-> IF k \in DOMAIN f THEN f[k] ELSE Undef]]
\* a null element
ElementoNull == [nulo |-> TRUE, campos |-> [k \in Claves |-> Undef]]

MESES_ORDEN == <<
    <<"E", "N", "E">>, <<"F", "E", "B">>, <<"M", "A", "R">>, <<"A", "B", "R">>,
    <<"M", "A", "Y">>, <<"J", "U", "N">>, <<"J", "U", "L">>, <<"A", "G", "O">>,
    <<"S", "E", "P">>, <<"O", "C", "T">>, <<"N", "O", "V">>, <<"D", "I", "C">> >>

\* the values of the object literal `mapa` of mesLabelDesdeCod, in the order
\* of the keys ENE..DIC
EtiquetasMes == <<
    <<"E", "n", "e">>, <<"F", "e", "b">>, <<"M", "a", "r">>, <<"A", "b", "r">>,
    <<"M", "a", "y">>, <<"J", "u", "n">>, <<"J", "u", "l">>, <<"A", "g", "o">>,
    <<"S", "e", "p">>, <<"O", "c", "t">>, <<"N", "o", "v">>, <<"D", "i", "c">> >>

\* MESES_ORDEN.includes(m)
EnMesesOrden(m) == \E i \in 1..Len(MESES_ORDEN) : MESES_ORDEN[i] = m
\* MESES_ORDEN.indexOf(m), 0-based, -1 when absent
IndiceMes(m) ==
    IF EnMesesOrden(m)
    THEN (CHOOSE i \in 1..Len(MESES_ORDEN) : MESES_ORDEN[i] = m) - 1
    ELSE -1

\* the string a month value is normalised to
normalizarMesCod(mes) ==
    IF ~Truthy(mes) THEN <<>> ELSE ToUpperCase(Trim(ACadena(mes)))

mesLabelDesdeCod(mesCod) ==
    IF EnMesesOrden(mesCod) THEN EtiquetasMes[IndiceMes(mesCod) + 1] ELSE mesCod

\* new Date().getFullYear() at the time of the model's fetches
AnoActual == 2026

\* Mutants of cumplimientoFinal: the ratio replaces whatever was supplied;
\* the ratio is taken without testing the goal
cumplimientoSiempreDerivado(cumplimiento, ventas, meta) ==
    IF Positivo(meta) THEN Mult(Div(ventas, meta), Num(100)) ELSE cumplimiento
cumplimientoSinGuarda(cumplimiento, ventas, meta) ==
    IF EsCero(cumplimiento) THEN Mult(Div(ventas, meta), Num(100)) ELSE cumplimiento

\* the attainment stored for a supplied (coerced) attainment, the sales and
\* the goal (lines 166-171)
cumplimientoFinal(cumplimiento, ventas, meta) ==
    IF EsCero(cumplimiento) /\ Positivo(meta)
    THEN Mult(Div(ventas, meta), Num(100))
    ELSE cumplimiento

\* the Venta the map callback returns for the object r at index idx
\* (0-based) of a response whose timestamp is ts
NormalizarRegistro(r, idx, ts) ==
    LET c == r.campos
        ano == ANumero(Coalesce(c["ano"], Coalesce(c["ANO"], Coalesce(c["año"],
                       Coalesce(c["Año"], Num(AnoActual))))))
        periodo == ANumero(Coalesce(c["periodo"], Coalesce(c["PERIODO"], Num(idx + 1))))
        mesCod == normalizarMesCod(Coalesce(c["mes"], c["MES"]))
        mesLabel == mesLabelDesdeCod(mesCod)
        codVen == Trim(ACadena(Coalesce(c["cod_ven"], Coalesce(c["COD_VEN"], Str(<<>>)))))
        vendedor == Trim(ACadena(Coalesce(c["vendedor"], Coalesce(c["VENDEDOR"], Str(<<>>)))))
        ventas == numeroSeguro(Coalesce(c["ventas"], c["VENTAS"]))
        meta1 == numeroSeguro(Coalesce(c["meta1"], Coalesce(c["META1"],
                              Coalesce(c["meta"], c["META"]))))
        meta2 == numeroSeguro(Coalesce(c["meta2"], c["META2"]))
        cumplimiento1 == numeroSeguro(Coalesce(c["cumplimiento1"],
                             Coalesce(c["CUMPLIMIENTO1"],
                             Coalesce(c["cumplimiento"], c["CUMPLIMIENTO"]))))
        cumplimiento2 == numeroSeguro(Coalesce(c["cumplimiento2"], c["CUMPLIMIENTO2"]))
        fechaActualizacion ==
            Coalesce(c["fecha_actualizacion"], Coalesce(c["FECHA_ACTUALIZACION"],
                     Coalesce(ts, Null)))
    IN [id |-> ANumero(Coalesce(c["id"], Num(idx + 1))),
        ano |-> ano,
        periodo |-> periodo,
        mesCod |-> Str(mesCod),
        mesLabel |-> Str(mesLabel),
        codVen |-> Str(codVen),
        vendedor |-> Str(vendedor),
        ventas |-> ventas,
        meta1 |-> meta1,
        meta2 |-> meta2,
        cumplimiento1 |-> cumplimientoFinal(cumplimiento1, ventas, meta1),
        cumplimiento2 |-> cumplimientoFinal(cumplimiento2, ventas, meta2),
        fechaActualizacion |->
            IF Truthy(fechaActualizacion) THEN Str(ACadena(fechaActualizacion))
            ELSE Undef]

\* json.data.map(...) throws a TypeError when it reads a property of a null
\* element (r.ano, line 149)
mapLanza(data) == \E i \in 1..Len(data) : data[i].nulo

\* json.data.map(...) when it does not throw
mapeados(data, ts) == [i \in 1..Len(data) |-> NormalizarRegistro(data[i], i - 1, ts)]

-----------------------------------------------------------------------------
(* Derived views (the useMemo blocks) *)

Todos == Str(<<"T", "o", "d", "o", "s">>)

\* the elements of s without repetitions, each at its first occurrence
\* (Array.from(new Set(s)))
Distintos(s) ==
    LET primero(i) == \A j \in 1..(i - 1) : s[j] /= s[i]
        F[i \in 0..Len(s)] ==
            IF i = 0 THEN <<>>
            ELSE IF primero(i) THEN Append(F[i - 1], s[i]) ELSE F[i - 1]
    IN F[Len(s)]

\* Array.prototype.sort with a comparator under which Antes(x, y) says that
\* the comparator is negative on (x, y); the sort is stable
OrdenarEstable(s, Antes(_, _)) ==
    LET pos(i) == 1 + Cardinality({j \in 1..Len(s) :
                        \/ Antes(s[j], s[i])
                        \/ (~Antes(s[i], s[j]) /\ j < i)})
    IN [p \in 1..Len(s) |-> s[CHOOSE i \in 1..Len(s) : pos(i) = p]]

\* the characters of the model in the order of their UTF-16 code units
OrdenCaracteres ==
    <<"\t", "\n", " ", "$", "+", ",", "-", ".">> \o Digitos \o Mayusculas \o Minusculas
Codigo(c) == CHOOSE i \in 1..Len(OrdenCaracteres) : OrdenCaracteres[i] = c

RECURSIVE MenorCadena(_, _)
\* a < b for strings (code unit order, as the default sort compares)
MenorCadena(a, b) ==
    IF b = <<>> THEN FALSE
    ELSE IF a = <<>> THEN TRUE
    ELSE IF Head(a) = Head(b) THEN MenorCadena(Tail(a), Tail(b))
    ELSE Codigo(Head(a)) < Codigo(Head(b))

aniosDisponibles(ds) ==
    LET anios == OrdenarEstable(Distintos([i \in 1..Len(ds) |-> ds[i].ano]),
                                LAMBDA a, b : Positivo(Resta(a, b)))
    IN <<Todos>> \o anios

vendedoresDisponibles(ds) ==
    LET vendedores ==
            OrdenarEstable(
                Distintos(SelectSeq([i \in 1..Len(ds) |-> ds[i].vendedor], Truthy)),
                LAMBDA a, b : MenorCadena(a.s, b.s))
    IN <<Todos>> \o vendedores

\* Mutant of mesesDisponibles: every non-empty month code is offered
mesesSinRestriccion(ds) ==
    LET lista ==
            OrdenarEstable(
                Distintos(SelectSeq([i \in 1..Len(ds) |-> ds[i].mesCod], Truthy)),
                LAMBDA a, b : IndiceMes(a.s) - IndiceMes(b.s) < 0)
    IN <<Todos>> \o lista

mesesDisponibles(ds) ==
    LET lista ==
            OrdenarEstable(
                Distintos(SelectSeq([i \in 1..Len(ds) |-> ds[i].mesCod],
                                    LAMBDA m : Truthy(m) /\ EnMesesOrden(m.s))),
                LAMBDA a, b : IndiceMes(a.s) - IndiceMes(b.s) < 0)
    IN <<Todos>> \o lista

\* Mutant of filtrados: the month selector is not applied
filtradosSinMes(ds, fAno, fVendedor, fMes) ==
    LET pasa(d) ==
            LET okAno == IgualEstricto(fAno, Todos) \/ IgualEstricto(d.ano, fAno)
                okVen == IgualEstricto(fVendedor, Todos)
                            \/ IgualEstricto(d.vendedor, fVendedor)
            IN okAno /\ okVen
    IN SelectSeq(ds, pasa)

\* datos.filter(...) of datosFiltrados for the given selector values
filtrados(ds, fAno, fVendedor, fMes) ==
    LET pasa(d) ==
            LET okAno == IgualEstricto(fAno, Todos) \/ IgualEstricto(d.ano, fAno)
                okVen == IgualEstricto(fVendedor, Todos)
                            \/ IgualEstricto(d.vendedor, fVendedor)
                okMes == IgualEstricto(fMes, Todos) \/ IgualEstricto(d.mesCod, fMes)
            IN okAno /\ okVen /\ okMes
    IN SelectSeq(ds, pasa)

datosFiltrados == filtrados(datos, filtroAno, filtroVendedor, filtroMes)

\* s.padStart(2, "0")
PadStart2(s) ==
    IF Len(s) >= 2 THEN s ELSE IF Len(s) = 1 THEN <<"0">> \o s ELSE <<"0", "0">>

\* Mutant of clavePeriodo: the month label is left out of the key
clavePeriodoSinMes(d) == PadStart2(NumACadena(d.periodo))

\* the key `${String(d.periodo).padStart(2, "0")} ${d.mesLabel}`
clavePeriodo(d) == PadStart2(NumACadena(d.periodo)) \o <<" ">> \o d.mesLabel.s

\* the sum of a sequence of numbers, accumulated from 0 from left to right
SumarTodos(s) ==
    LET F[i \in 0..Len(s)] == IF i = 0 THEN Num(0) ELSE Suma(F[i - 1], s[i])
    IN F[Len(s)]

\* sum-based attainment of an aggregate row
porcentaje(ventas, meta) ==
    IF Positivo(meta) THEN Mult(Div(ventas, meta), Num(100)) ELSE Num(0)

\* the rows of datosPorPeriodo for the filtered records fs
porPeriodo(fs) ==
    LET claves == Distintos([i \in 1..Len(fs) |-> clavePeriodo(fs[i])])
        grupo(k) == SelectSeq(fs, LAMBDA d : clavePeriodo(d) = k)
        item(k) ==
            LET g == grupo(k)
            IN [clave |-> k,
                periodo |-> g[1].periodo,
                mesLabel |-> g[1].mesLabel,
                ventas |-> SumarTodos([i \in 1..Len(g) |-> g[i].ventas]),
                meta1 |-> SumarTodos([i \in 1..Len(g) |-> g[i].meta1]),
                meta2 |-> SumarTodos([i \in 1..Len(g) |-> g[i].meta2])]
        arr == OrdenarEstable([i \in 1..Len(claves) |-> item(claves[i])],
                              LAMBDA a, b : Positivo(Resta(b.periodo, a.periodo)))
    IN [i \in 1..Len(arr) |->
            [periodoLabel |-> arr[i].clave,
             ventas |-> arr[i].ventas,
             meta1 |-> arr[i].meta1,
             meta2 |-> arr[i].meta2,
             cumplimiento1 |-> porcentaje(arr[i].ventas, arr[i].meta1),
             cumplimiento2 |-> porcentaje(arr[i].ventas, arr[i].meta2)]]

datosPorPeriodo == porPeriodo(datosFiltrados)

\* s in reverse order
Invertir(s) == [i \in 1..Len(s) |-> s[Len(s) + 1 - i]]

\* the entries of the Map of datosPorVendedor with their attainments, in the
\* order of insertion (lines 296-320)
filasVendedor(fs) ==
    LET nombres == Distintos([i \in 1..Len(fs) |-> fs[i].vendedor])
        grupo(v) == SelectSeq(fs, LAMBDA d : d.vendedor = v)
        item(v) ==
            LET g == grupo(v)
            IN [vendedor |-> v,
                ventas |-> SumarTodos([i \in 1..Len(g) |-> g[i].ventas]),
                meta1 |-> SumarTodos([i \in 1..Len(g) |-> g[i].meta1]),
                meta2 |-> SumarTodos([i \in 1..Len(g) |-> g[i].meta2])]
    IN [i \in 1..Len(nombres) |->
            LET v == item(nombres[i])
            IN [vendedor |-> v.vendedor,
                ventas |-> v.ventas,
                meta1 |-> v.meta1,
                meta2 |-> v.meta2,
                cumplimiento1 |-> porcentaje(v.ventas, v.meta1),
                cumplimiento2 |-> porcentaje(v.ventas, v.meta2)]]

\* Mutant of porVendedor: rows with equal ventas come out in the reverse of
\* the order of insertion (a sort that is not stable)
porVendedorEmpatesInvertidos(fs) ==
    OrdenarEstable(Invertir(filasVendedor(fs)),
                   LAMBDA a, b : Positivo(Resta(a.ventas, b.ventas)))

\* the rows of datosPorVendedor for the filtered records fs:
\* arr.sort((a, b) => b.ventas - a.ventas)
porVendedor(fs) ==
    OrdenarEstable(filasVendedor(fs),
                   LAMBDA a, b : Positivo(Resta(a.ventas, b.ventas)))

datosPorVendedor == porVendedor(datosFiltrados)

\* c1 / c2 of the forEach of kpis:
\* d.cumplimiento || (d.meta > 0 ? (d.ventas / d.meta) * 100 : 0)
cumplimientoKpi(cumplimiento, ventas, meta) ==
    IF Truthy(cumplimiento) THEN cumplimiento ELSE porcentaje(ventas, meta)

\* Mutant of promedioPositivos: every record counts in the denominator
promedioTodos(cs) ==
    LET pos == SelectSeq(cs, Positivo)
    IN IF Len(cs) > 0 THEN Div(SumarTodos(pos), Num(Len(cs))) ELSE Num(0)

\* sumaCumpl / conCumpl over the attainments cs of the filtered records, the
\* positive ones alone being added and counted (lines 359-366, 378-379)
promedioPositivos(cs) ==
    LET pos == SelectSeq(cs, Positivo)
    IN IF Len(pos) > 0 THEN Div(SumarTodos(pos), Num(Len(pos))) ELSE Num(0)

\* the object kpis holds for the filtered records fs
kpisDe(fs) ==
    IF Len(fs) = 0
    THEN [totalVentas |-> Num(0), totalMeta1 |-> Num(0), totalMeta2 |-> Num(0),
          porcMeta1 |-> Num(0), porcMeta2 |-> Num(0),
          promCumpl1 |-> Num(0), promCumpl2 |-> Num(0), registros |-> Num(0)]
    ELSE LET totalVentas == SumarTodos([i \in 1..Len(fs) |-> fs[i].ventas])
             totalMeta1 == SumarTodos([i \in 1..Len(fs) |-> fs[i].meta1])
             totalMeta2 == SumarTodos([i \in 1..Len(fs) |-> fs[i].meta2])
             c1 == [i \in 1..Len(fs) |->
                       cumplimientoKpi(fs[i].cumplimiento1, fs[i].ventas, fs[i].meta1)]
             c2 == [i \in 1..Len(fs) |->
                       cumplimientoKpi(fs[i].cumplimiento2, fs[i].ventas, fs[i].meta2)]
         IN [totalVentas |-> totalVentas,
             totalMeta1 |-> totalMeta1,
             totalMeta2 |-> totalMeta2,
             porcMeta1 |-> porcentaje(totalVentas, totalMeta1),
             porcMeta2 |-> porcentaje(totalVentas, totalMeta2),
             promCumpl1 |-> promedioPositivos(c1),
             promCumpl2 |-> promedioPositivos(c2),
             registros |-> Num(Len(fs))]

\* Mutant of kpis: the metrics are computed from the whole collection
kpisSinFiltro == kpisDe(datos)

kpis == kpisDe(datosFiltrados)

-----------------------------------------------------------------------------
(* The responses the API may give *)

MaxRegistros == 1
MaxLlamadas == 3

RegAna2024 ==
    Obj([ano |-> Num(2024), periodo |-> Num(1), mes |-> Str(<<"e", "n", "e">>),
         vendedor |-> Str(<<"A", "n", "a">>),
         ventas |-> Str(<<"1", ".", "0", "0", "0">>),
         meta1 |-> Str(<<"8", "0", "0">>)])
RegAna2025 ==
    Obj([ANO |-> Str(<<"2", "0", "2", "5">>), PERIODO |-> Num(2),
         MES |-> Str(<<" ", "f", "e", "b", " ">>),
         VENDEDOR |-> Str(<<"A", "n", "a", " ">>),
         VENTAS |-> Num(150), META |-> Num(100), CUMPLIMIENTO |-> Num(0),
         META2 |-> Num(0), CUMPLIMIENTO2 |-> Num(30)])
RegAnaEne2025 ==
    Obj([ANO |-> Str(<<"2", "0", "2", "5">>), MES |-> Str(<<"E", "n", "e">>),
         VENDEDOR |-> Str(<<"A", "n", "a">>), VENTAS |-> Num(150),
         META |-> Num(100)])

Elementos == {RegAna2024, RegAnaEne2025, ElementoNull}

SecuenciasHasta(S, n) == UNION {[1..k -> S] : k \in 0..n}

\* a response: the fetch promise rejects (rechazo, with the reason's message,
\* "" when it has none), or resolves to a Response with `ok` and `status`
\* whose json() rejects (cuerpoValido = FALSE, with a message) or gives an
\* object with success, data (an array or not) and timestamp
Respuesta(rechazo, mensaje, ok, status, cuerpoValido, success, esArray, data, ts) ==
    [rechazo |-> rechazo, mensaje |-> mensaje, ok |-> ok, status |-> status,
     cuerpoValido |-> cuerpoValido, success |-> success, esArray |-> esArray,
     data |-> data, timestamp |-> ts]

MarcaDeTiempo == Str(<<"t", "1">>)

RespuestasOk ==
    {Respuesta(FALSE, "", TRUE, 200, TRUE, Bool(TRUE), TRUE, data, MarcaDeTiempo) :
        data \in SecuenciasHasta(Elementos, MaxRegistros)}

RespuestasMalas ==
    {Respuesta(TRUE, "Failed to fetch", FALSE, 0, FALSE, Undef, FALSE, <<>>, Undef),
     Respuesta(TRUE, "", FALSE, 0, FALSE, Undef, FALSE, <<>>, Undef),
     Respuesta(FALSE, "", FALSE, 500, TRUE, Undef, FALSE, <<>>, Undef),
     Respuesta(FALSE, "Unexpected token < in JSON", TRUE, 200, FALSE, Undef, FALSE,
               <<>>, Undef),
     Respuesta(FALSE, "", TRUE, 200, TRUE, Bool(FALSE), TRUE, <<RegAna2024>>,
               MarcaDeTiempo),
     Respuesta(FALSE, "", TRUE, 200, TRUE, Bool(TRUE), FALSE, <<>>, MarcaDeTiempo)}

Respuestas == RespuestasOk \cup RespuestasMalas

\* `Error HTTP ${resp.status}`
MensajeHttp(status) ==
    CASE status = 404 -> "Error HTTP 404"
      [] status = 500 -> "Error HTTP 500"
      [] OTHER -> "Error HTTP"

\* the message of the error the try block ends with on response r, in a
\* sequence of length 1; <<>> when the try block completes
excepcion(r) ==
    IF r.rechazo THEN <<r.mensaje>>
    ELSE IF ~r.ok THEN <<MensajeHttp(r.status)>>
    ELSE IF ~r.cuerpoValido THEN <<r.mensaje>>
    ELSE IF ~Truthy(r.success) \/ ~r.esArray THEN <<"Formato de respuesta inválido">>
    ELSE IF mapLanza(r.data)
         THEN <<"Cannot read properties of null (reading 'ano')">>
    ELSE <<>>

-----------------------------------------------------------------------------
(* The component.  error, ultimaActualizacion and json hold <<>> for null  *)
(* and <<x>> for a value x.                                                 *)

InitComponente ==
    /\ datos = <<>>
    /\ cargando = FALSE
    /\ error = <<>>
    /\ ultimaActualizacion = <<>>
    /\ filtroAno = Todos
    /\ filtroVendedor = Todos
    /\ filtroMes = Todos
    /\ llamadas = <<>>
    /\ resueltas = <<>>
    /\ json = <<>>

\* cargarDatos up to its first await: a new activation waits for its response
cargarDatosInicio ==
    /\ cargando' = TRUE
    /\ error' = <<>>
    /\ llamadas' = Append(llamadas, [pc |-> "await", previas |-> Len(resueltas)])
    /\ UNCHANGED <<datos, ultimaActualizacion, filtroAno, filtroVendedor,
                   filtroMes, resueltas, json, arg, ret>>

\* useEffect(() => { cargarDatos(); }, []): runs on mount, before any click
\* can be handled; React runs a mount effect a second time, at once, when
\* the component is rendered in StrictMode
EfectoMontaje ==
    /\ resueltas = <<>>
    /\ Len(llamadas) <= 1
    /\ cargarDatosInicio

\* onClick={cargarDatos} of the refresh button, disabled={cargando}
ClickActualizar ==
    /\ llamadas /= <<>>
    /\ ~cargando
    /\ Len(llamadas) < MaxLlamadas
    /\ cargarDatosInicio

\* Mutants of the two continuations of cargarDatos

\* the new records are appended to the old ones
cargarDatosExitoMezcla(i, r) ==
    /\ llamadas[i].pc = "await"
    /\ excepcion(r) = <<>>
    /\ datos' = datos \o mapeados(r.data, r.timestamp)
    /\ ultimaActualizacion' = <<Len(resueltas) + 1>>
    /\ cargando' = FALSE
    /\ llamadas' = [llamadas EXCEPT ![i].pc = "ok"]
    /\ resueltas' = Append(resueltas, i)
    /\ json' = <<r>>
    /\ UNCHANGED <<error, filtroAno, filtroVendedor, filtroMes, arg, ret>>

\* a response is dropped when a later-issued activation has already resumed
cargarDatosExitoSecuenciado(i, r) ==
    /\ llamadas[i].pc = "await"
    /\ excepcion(r) = <<>>
    /\ datos' = IF \E j \in (i + 1)..Len(llamadas) : llamadas[j].pc /= "await"
               THEN datos ELSE mapeados(r.data, r.timestamp)
    /\ ultimaActualizacion' = <<Len(resueltas) + 1>>
    /\ cargando' = FALSE
    /\ llamadas' = [llamadas EXCEPT ![i].pc = "ok"]
    /\ resueltas' = Append(resueltas, i)
    /\ json' = <<r>>
    /\ UNCHANGED <<error, filtroAno, filtroVendedor, filtroMes, arg, ret>>

\* the selectors are reset when the records are replaced
cargarDatosExitoReinicia(i, r) ==
    /\ llamadas[i].pc = "await"
    /\ excepcion(r) = <<>>
    /\ datos' = mapeados(r.data, r.timestamp)
    /\ ultimaActualizacion' = <<Len(resueltas) + 1>>
    /\ cargando' = FALSE
    /\ llamadas' = [llamadas EXCEPT ![i].pc = "ok"]
    /\ resueltas' = Append(resueltas, i)
    /\ json' = <<r>>
    /\ filtroAno' = Todos
    /\ filtroVendedor' = Todos
    /\ filtroMes' = Todos
    /\ UNCHANGED <<error, arg, ret>>

\* the catch block clears the records
cargarDatosFalloVacia(i, r) ==
    /\ llamadas[i].pc = "await"
    /\ excepcion(r) /= <<>>
    /\ datos' = <<>>
    /\ error' = IF excepcion(r)[1] /= "" THEN excepcion(r)
                ELSE <<"Error al cargar datos">>
    /\ cargando' = FALSE
    /\ llamadas' = [llamadas EXCEPT ![i].pc = "catch"]
    /\ resueltas' = Append(resueltas, i)
    /\ json' = <<r>>
    /\ UNCHANGED <<ultimaActualizacion, filtroAno, filtroVendedor,
                   filtroMes, arg, ret>>

\* activation i resumes with response r and completes the try block
cargarDatosExito(i, r) ==
    /\ llamadas[i].pc = "await"
    /\ excepcion(r) = <<>>
    /\ datos' = mapeados(r.data, r.timestamp)
    /\ ultimaActualizacion' = <<Len(resueltas) + 1>>
    /\ cargando' = FALSE
    /\ llamadas' = [llamadas EXCEPT ![i].pc = "ok"]
    /\ resueltas' = Append(resueltas, i)
    /\ json' = <<r>>
    /\ UNCHANGED <<error, filtroAno, filtroVendedor, filtroMes, arg, ret>>

\* activation i resumes with response r and ends in the catch block
cargarDatosFallo(i, r) ==
    /\ llamadas[i].pc = "await"
    /\ excepcion(r) /= <<>>
    /\ error' = IF excepcion(r)[1] /= "" THEN excepcion(r)
                ELSE <<"Error al cargar datos">>
    /\ cargando' = FALSE
    /\ llamadas' = [llamadas EXCEPT ![i].pc = "catch"]
    /\ resueltas' = Append(resueltas, i)
    /\ json' = <<r>>
    /\ UNCHANGED <<datos, ultimaActualizacion, filtroAno, filtroVendedor,
                   filtroMes, arg, ret>>

\* onChange of the year select: the value of the chosen option as text
SeleccionarAno(a) ==
    /\ filtroAno' = IF ACadena(a) = Todos.s THEN Todos ELSE ANumero(Str(ACadena(a)))
    /\ UNCHANGED <<datos, cargando, error, ultimaActualizacion, filtroVendedor,
                   filtroMes, llamadas, resueltas, json, arg, ret>>

SeleccionarVendedor(v) ==
    /\ filtroVendedor' = IF ACadena(v) = Todos.s THEN Todos ELSE Str(ACadena(v))
    /\ UNCHANGED <<datos, cargando, error, ultimaActualizacion, filtroAno,
                   filtroMes, llamadas, resueltas, json, arg, ret>>

SeleccionarMes(m) ==
    /\ filtroMes' = IF ACadena(m) = Todos.s THEN Todos ELSE Str(ACadena(m))
    /\ UNCHANGED <<datos, cargando, error, ultimaActualizacion, filtroAno,
                   filtroVendedor, llamadas, resueltas, json, arg, ret>>

Elems(s) == {s[i] : i \in 1..Len(s)}

Init ==
    /\ InitComponente
    /\ arg = <<>>
    /\ ret = <<>>

Next ==
    \/ EfectoMontaje
    \/ ClickActualizar
    \/ \E i \in 1..Len(llamadas), r \in Respuestas : cargarDatosExito(i, r)
    \/ \E i \in 1..Len(llamadas), r \in Respuestas : cargarDatosFallo(i, r)
    \/ \E a \in Elems(aniosDisponibles(datos)) : SeleccionarAno(a)
    \/ \E v \in Elems(vendedoresDisponibles(datos)) : SeleccionarVendedor(v)
    \/ \E m \in Elems(mesesDisponibles(datos)) : SeleccionarMes(m)

Spec == Init /\ [][Next]_vars

-----------------------------------------------------------------------------
(* Properties of the fetch cycle, checked under Spec *)

\* the activation that resumed last, and whether it completed the try block
Ultima == resueltas[Len(resueltas)]
UltimaExito == resueltas /= <<>> /\ llamadas[Ultima].pc = "ok"
UltimaFallo == resueltas /= <<>> /\ llamadas[Ultima].pc = "catch"
\* the step resumes an activation
Reanuda == Len(resueltas') = Len(resueltas) + 1

\* C1: when an activation of cargarDatos ends in failure (rejected fetch,
\* non-2xx status, unreadable body, falsy success, data not an array), the
\* step leaves datos exactly as it was and sets error to a message, whatever
\* fetches came before.
C1_FalloConservaDatos ==
    [][(Reanuda /\ excepcion(json'[1]) /= <<>>)
            => (datos' = datos /\ error' /= <<>> /\ error'[1] /= "")]_vars

\* a failure after a success: the records of the success are still there
C1_Testigo ==
    /\ UltimaFallo
    /\ Len(resueltas) >= 2
    /\ datos /= <<>>
    /\ error /= <<>>

Pos(i) ==
    IF \E k \in 1..Len(resueltas) : resueltas[k] = i
    THEN CHOOSE k \in 1..Len(resueltas) : resueltas[k] = i
    ELSE 0
\* activations i < j overlap: i had not resumed when j was issued
Solapan(i, j) == Pos(i) = 0 \/ Pos(i) > llamadas[j].previas

\* C3: when two overlapping activations both succeed, right after both have
\* resumed datos is the normalisation of the response that arrived last,
\* whichever of the two was issued first.
C3_UltimaRespuestaGana ==
    \A i, j \in 1..Len(llamadas) :
        (/\ i < j
         /\ Solapan(i, j)
         /\ llamadas[i].pc = "ok"
         /\ llamadas[j].pc = "ok"
         /\ Ultima \in {i, j})
        => datos = mapeados(json[1].data, json[1].timestamp)

\* the activation issued first resumed last, after the second had succeeded
C3_Testigo ==
    /\ Len(llamadas) >= 2
    /\ llamadas[1].pc = "ok"
    /\ llamadas[2].pc = "ok"
    /\ Solapan(1, 2)
    /\ Pos(2) < Pos(1)
    /\ Ultima = 1
    /\ datos /= <<>>

\* a selector holds a value that occurs in no record of datos
FiltroObsoleto ==
    \/ filtroAno /= Todos /\ \A i \in 1..Len(datos) : datos[i].ano /= filtroAno
    \/ filtroVendedor /= Todos
          /\ \A i \in 1..Len(datos) : datos[i].vendedor /= filtroVendedor
    \/ filtroMes /= Todos /\ \A i \in 1..Len(datos) : datos[i].mesCod /= filtroMes

\* C4: a step of cargarDatos (its start, its success or its failure) leaves
\* the three selectors as they were; when a selector then holds a value absent
\* from datos the filtered set is empty, and a success sets no error.
C4_FetchNoTocaFiltros ==
    [][(llamadas' /= llamadas) =>
            /\ filtroAno' = filtroAno
            /\ filtroVendedor' = filtroVendedor
            /\ filtroMes' = filtroMes
            /\ (FiltroObsoleto' => datosFiltrados' = <<>>)
            /\ (UltimaExito' /\ Reanuda => error' = error)]_vars

\* after a refresh the year selector holds a year no record has
C4_Testigo ==
    /\ UltimaExito
    /\ datos /= <<>>
    /\ filtroAno = Num(2024)
    /\ \A i \in 1..Len(datos) : datos[i].ano /= Num(2024)
    /\ datosFiltrados = <<>>
    /\ error = <<>>

\* C6: every response with a truthy success and an array as data ends as a
\* success with one canonical record per element, whatever the elements are.
C6_NormalizadorNuncaFalla ==
    (/\ json /= <<>>
     /\ ~json[1].rechazo
     /\ json[1].ok
     /\ json[1].cuerpoValido
     /\ Truthy(json[1].success)
     /\ json[1].esArray)
    => (UltimaExito /\ Len(datos) = Len(json[1].data))

-----------------------------------------------------------------------------
(* numeroSeguro on its own: SpecNumero evaluates it on every string of up  *)
(* to MaxLargoCadena characters of AlfabetoNumero and on the values below. *)

MaxLargoCadena == 3
AlfabetoNumero == {"1", "5", ".", ",", "$", " ", "-", "x"}

EjemploMoneda ==
    Str(<<"$", " ", "1", ".", "2", "3", "4", ".", "5", "6", "7", ",", "8", "9">>)

EntradasNumero ==
    {Str(s) : s \in SecuenciasHasta(AlfabetoNumero, MaxLargoCadena)}
    \cup {EjemploMoneda, Str(<<"1", ".", "0", "0", "0", ".", "0", "0", "0">>),
          Num(42), Num(0), Num(-7), Frac(3, 2), Null, Undef, Bool(TRUE)}

InitNumero ==
    /\ InitComponente
    /\ arg \in EntradasNumero
    /\ ret = <<>>

EvaluarNumero ==
    /\ ret = <<>>
    /\ ret' = <<numeroSeguro(arg)>>
    /\ UNCHANGED <<estadoComponente, arg>>

SpecNumero == InitNumero /\ [][EvaluarNumero]_vars

\* C7: numeroSeguro returns a native number unchanged, gives 1234567.89 for
\* "$ 1.234.567,89", 0 for "-" and for "", and 42 for 42.
C7_numeroSeguroEjemplos ==
    ret /= <<>> =>
        /\ (arg.t = "number" => ret[1] = arg)
        /\ (arg = EjemploMoneda => ret[1] = Frac(123456789, 100))
        /\ (arg = Str(<<"-">>) => ret[1] = Num(0))
        /\ (arg = Str(<<>>) => ret[1] = Num(0))
        /\ (arg = Num(42) => ret[1] = Num(42))

-----------------------------------------------------------------------------
(* The map callback on its own: SpecNormalizar applies it to one object at *)
(* index 0 or 1, over every combination of the values below for the sales, *)
(* the two goals and the two supplied attainments.                          *)

ValoresVentas == {Undef, Num(0), Num(150), Str(<<"1", ".", "0", "0", "0">>)}
ValoresMeta1 == {Undef, Num(0), Num(100), Num(-100), Str(<<"8", "0", "0">>)}
ValoresCumplimiento1 ==
    {Undef, Null, Num(0), Num(50), Str(<<"0">>), Str(<<"-">>), Str(<<"x">>)}
ValoresMeta2 == {Undef, Num(0), Num(250)}
ValoresCumplimiento2 == {Undef, Num(0), Num(30)}

EntradasNormalizar ==
    {[r |-> Obj([k \in {"ventas", km, kc, "META2", "cumplimiento2"} |->
                    CASE k = "ventas" -> v
                      [] k = km -> m1
                      [] k = kc -> c1
                      [] k = "META2" -> m2
                      [] OTHER -> c2]),
      idx |-> idx, ts |-> MarcaDeTiempo] :
        v \in ValoresVentas, m1 \in ValoresMeta1, c1 \in ValoresCumplimiento1,
        m2 \in ValoresMeta2, c2 \in ValoresCumplimiento2,
        km \in {"meta1", "META"}, kc \in {"cumplimiento1", "CUMPLIMIENTO"},
        idx \in {0, 1}}

InitNormalizar ==
    /\ InitComponente
    /\ arg \in EntradasNormalizar
    /\ ret = <<>>

EvaluarNormalizar ==
    /\ ret = <<>>
    /\ ret' = <<NormalizarRegistro(arg.r, arg.idx, arg.ts)>>
    /\ UNCHANGED <<estadoComponente, arg>>

SpecNormalizar == InitNormalizar /\ [][EvaluarNormalizar]_vars

\* the attainments the raw object supplies, as numeroSeguro coerces them
Suministrado1(r) ==
    numeroSeguro(Coalesce(r.campos["cumplimiento1"], Coalesce(r.campos["CUMPLIMIENTO1"],
                 Coalesce(r.campos["cumplimiento"], r.campos["CUMPLIMIENTO"]))))
Suministrado2(r) ==
    numeroSeguro(Coalesce(r.campos["cumplimiento2"], r.campos["CUMPLIMIENTO2"]))

\* actual / goal * 100 as a fraction in lowest terms, for a goal other than 0
Razon100(ventas, meta) == Frac(ventas.n * meta.d * 100, ventas.d * meta.n)

\* C8: for each goal, a supplied attainment that coerces to 0 with a positive
\* goal is stored as actual / goal * 100; in every other case the supplied
\* (coerced) value is stored.  actual 150, goal1 100, supplied 0 gives 150.
C8_CumplimientoDerivado ==
    ret /= <<>> =>
        LET v == ret[1]
            s1 == Suministrado1(arg.r)
            s2 == Suministrado2(arg.r)
        IN /\ v.cumplimiento1 =
                 IF s1 = Num(0) /\ v.meta1.n > 0 THEN Razon100(v.ventas, v.meta1) ELSE s1
           /\ v.cumplimiento2 =
                 IF s2 = Num(0) /\ v.meta2.n > 0 THEN Razon100(v.ventas, v.meta2) ELSE s2
           /\ (v.ventas = Num(150) /\ v.meta1 = Num(100) /\ s1 = Num(0)
                  => v.cumplimiento1 = Num(150))

\* the example of the claim, and a supplied 50 kept beside a positive goal
C8_Testigo ==
    /\ ret /= <<>>
    /\ arg.r.campos["ventas"] = Num(150)
    /\ arg.r.campos["meta1"] = Num(100)
    /\ arg.r.campos["cumplimiento1"] = Num(0)
    /\ ret[1].cumplimiento1 = Num(150)
    /\ arg.r.campos["META2"] = Num(250)
    /\ arg.r.campos["cumplimiento2"] = Num(30)
    /\ ret[1].cumplimiento2 = Num(30)

\* C9 as stated: a canonical record whose goal is 0 has a stored attainment
\* of 0, for each of the two goals.
C9_MetaCeroCumplimientoCero ==
    ret /= <<>> =>
        /\ (ret[1].meta1 = Num(0) => ret[1].cumplimiento1 = Num(0))
        /\ (ret[1].meta2 = Num(0) => ret[1].cumplimiento2 = Num(0))

\* C9 as amended: a canonical record whose goal is 0 stores the supplied
\* attainment as coerced, whatever the sales are: 0 when the supplied value
\* coerces to 0, and never NaN, since nothing is divided by the goal.
C9_MetaCeroConservaSuministrado ==
    ret /= <<>> =>
        LET v == ret[1]
        IN /\ (v.meta1 = Num(0) =>
                  v.cumplimiento1 = Suministrado1(arg.r) /\ ~EsNaN(v.cumplimiento1))
           /\ (v.meta2 = Num(0) =>
                  v.cumplimiento2 = Suministrado2(arg.r) /\ ~EsNaN(v.cumplimiento2))

\* goal1 is 0, the sales are not, and the supplied attainment is 0: 0 stored;
\* goal2 is 0 and the supplied 30 is kept
C9_Testigo ==
    /\ ret /= <<>>
    /\ ret[1].ventas = Num(150)
    /\ ret[1].meta1 = Num(0)
    /\ Suministrado1(arg.r) = Num(0)
    /\ ret[1].cumplimiento1 = Num(0)
    /\ ret[1].meta2 = Num(0)
    /\ ret[1].cumplimiento2 = Num(30)

-----------------------------------------------------------------------------
(* The selectors and the derived views on their own: SpecVistas starts     *)
(* after the first fetch has delivered up to MaxRegistrosVistas records    *)
(* and changes the selectors.                                               *)

MaxRegistrosVistas == 3

RegLuis2024 ==
    Obj([ano |-> Num(2024), periodo |-> Num(1), mes |-> Str(<<"E", "N", "E">>),
         vendedor |-> Str(<<"L", "u", "i", "s">>),
         ventas |-> Num(500), meta1 |-> Num(1000), cumplimiento1 |-> Num(50),
         meta2 |-> Num(250)])
RegVacio == Obj(<<>>)
RegRaro ==
    Obj([ano |-> Num(2025), periodo |-> Str(<<"1">>), mes |-> Str(<<"x", "y", "z">>),
         vendedor |-> Str(<<" ", " ">>), ventas |-> Str(<<"-">>),
         meta1 |-> Num(-100), cumplimiento1 |-> Str(<<"1", "0">>)])

RegEva2024 ==
    Obj([id |-> Num(2), ano |-> Num(2024), periodo |-> Num(2),
         mes |-> Str(<<"f", "e", "b">>), vendedor |-> Str(<<"e", "v", "a">>),
         ventas |-> Num(500)])

ElementosVistas ==
    <<RegAna2024, RegLuis2024, RegAna2025, RegVacio, RegRaro, RegEva2024>>

RespuestasVistas ==
    {Respuesta(FALSE, "", TRUE, 200, TRUE, Bool(TRUE), TRUE, data, MarcaDeTiempo) :
        data \in SecuenciasHasta(Elems(ElementosVistas), MaxRegistrosVistas)}

InitVistas ==
    /\ \E r \in RespuestasVistas :
          /\ datos = mapeados(r.data, r.timestamp)
          /\ json = <<r>>
    /\ cargando = FALSE
    /\ error = <<>>
    /\ ultimaActualizacion = <<1>>
    /\ llamadas = <<[pc |-> "ok", previas |-> 0]>>
    /\ resueltas = <<1>>
    /\ filtroAno = Todos
    /\ filtroVendedor = Todos
    /\ filtroMes = Todos
    /\ arg = <<>>
    /\ ret = <<>>

NextVistas ==
    \/ \E a \in Elems(aniosDisponibles(datos)) : SeleccionarAno(a)
    \/ \E v \in Elems(vendedoresDisponibles(datos)) : SeleccionarVendedor(v)
    \/ \E m \in Elems(mesesDisponibles(datos)) : SeleccionarMes(m)

SpecVistas == InitVistas /\ [][NextVistas]_vars

\* the record matches every selector that is not set to "Todos"
Coincide(d) ==
    /\ (filtroAno /= Todos => d.ano = filtroAno)
    /\ (filtroVendedor /= Todos => d.vendedor = filtroVendedor)
    /\ (filtroMes /= Todos => d.mesCod = filtroMes)

\* C5: datosFiltrados holds exactly the records that match every selector not
\* set to "Todos"; applying the year selector and then the seller selector
\* gives what applying them in the other order gives, and the filtered set is
\* contained in what each selector gives alone.
C5_FiltroConjuncion ==
    LET soloAno == filtrados(datos, filtroAno, Todos, Todos)
        soloVen == filtrados(datos, Todos, filtroVendedor, Todos)
        soloMes == filtrados(datos, Todos, Todos, filtroMes)
    IN /\ datosFiltrados = SelectSeq(datos, Coincide)
       /\ filtrados(soloAno, Todos, filtroVendedor, Todos)
             = filtrados(soloVen, filtroAno, Todos, Todos)
       /\ filtrados(filtrados(soloAno, Todos, filtroVendedor, Todos),
                    Todos, Todos, filtroMes) = datosFiltrados
       /\ Elems(datosFiltrados) \subseteq
             (Elems(soloAno) \cap Elems(soloVen) \cap Elems(soloMes))

\* three selectors set, each of which alone lets more records through
C5_Testigo ==
    /\ filtroAno = Num(2024)
    /\ filtroVendedor = Str(<<"A", "n", "a">>)
    /\ filtroMes = Str(<<"E", "N", "E">>)
    /\ Len(datos) = 3
    /\ Len(datosFiltrados) = 1
    /\ Len(filtrados(datos, filtroAno, Todos, Todos)) = 2
    /\ Len(filtrados(datos, Todos, filtroVendedor, Todos)) = 2
    /\ Len(filtrados(datos, Todos, Todos, filtroMes)) = 2

\* the (period, monthLabel) pairs of the filtered records
ParesPeriodo ==
    {<<datosFiltrados[i].periodo, datosFiltrados[i].mesLabel>> :
        i \in 1..Len(datosFiltrados)}
\* the positions of the filtered records with that pair
DelPar(par) ==
    {i \in 1..Len(datosFiltrados) :
        <<datosFiltrados[i].periodo, datosFiltrados[i].mesLabel>> = par}

RECURSIVE SumaConjunto(_, _)
\* the sum of f[i] over the i of I
SumaConjunto(I, f) ==
    IF I = {} THEN Num(0)
    ELSE LET i == CHOOSE x \in I : TRUE
         IN Suma(f[i], SumaConjunto(I \ {i}, f))

\* C10: datosPorPeriodo has one row per (period, monthLabel) pair of the
\* filtered records; the row's ventas, meta1 and meta2 are the sums over the
\* filtered records with that pair, and its attainments are the ratio of
\* those sums times 100, 0 when the summed goal is not positive.
C10_AgregadoPorPeriodo ==
    LET fs == datosFiltrados
        filas == datosPorPeriodo
    IN /\ Len(filas) = Cardinality(ParesPeriodo)
       /\ \A par \in ParesPeriodo :
             LET I == DelPar(par)
                 v == SumaConjunto(I, [i \in 1..Len(fs) |-> fs[i].ventas])
                 m1 == SumaConjunto(I, [i \in 1..Len(fs) |-> fs[i].meta1])
                 m2 == SumaConjunto(I, [i \in 1..Len(fs) |-> fs[i].meta2])
                 etiqueta == PadStart2(NumACadena(par[1])) \o <<" ">> \o par[2].s
                 K == {k \in 1..Len(filas) : filas[k].periodoLabel = etiqueta}
             IN /\ Cardinality(K) = 1
                /\ \A k \in K :
                      /\ filas[k].ventas = v
                      /\ filas[k].meta1 = m1
                      /\ filas[k].meta2 = m2
                      /\ filas[k].cumplimiento1 =
                            IF m1.n > 0 THEN Razon100(v, m1) ELSE Num(0)
                      /\ filas[k].cumplimiento2 =
                            IF m2.n > 0 THEN Razon100(v, m2) ELSE Num(0)

\* the year selector leaves two of three records, which share a pair and
\* have unequal goals: the row's attainment is 1500/1800*100, not the mean
\* (125 + 50) / 2 of the two records' attainments
C10_Testigo ==
    /\ filtroAno = Num(2024)
    /\ Len(datos) = 3
    /\ Len(datosFiltrados) = 2
    /\ datosFiltrados[1].cumplimiento1 = Num(125)
    /\ datosFiltrados[2].cumplimiento1 = Num(50)
    /\ Len(datosPorPeriodo) = 1
    /\ datosPorPeriodo[1].periodoLabel = <<"0", "1", " ", "E", "n", "e">>
    /\ datosPorPeriodo[1].ventas = Num(1500)
    /\ datosPorPeriodo[1].meta1 = Num(1800)
    /\ datosPorPeriodo[1].cumplimiento1 = Frac(250, 3)
    /\ datosPorPeriodo[1].cumplimiento1 /= Frac(175, 2)

\* the position in the filtered records of the first record of seller v
PrimerIndice(v) ==
    CHOOSE i \in 1..Len(datosFiltrados) :
        /\ datosFiltrados[i].vendedor = v
        /\ \A j \in 1..(i - 1) : datosFiltrados[j].vendedor /= v

\* C11: datosPorVendedor has exactly one row per distinct seller name of the
\* filtered records, with the seller's summed ventas; each row's ventas is >=
\* the next row's, and rows with equal ventas stand in the order in which
\* their sellers first occur in the filtered records.
C11_VendedoresDescendente ==
    LET fs == datosFiltrados
        filas == datosPorVendedor
        nombres == {fs[i].vendedor : i \in 1..Len(fs)}
    IN /\ Len(filas) = Cardinality(nombres)
       /\ {filas[k].vendedor : k \in 1..Len(filas)} = nombres
       /\ \A k \in 1..Len(filas) :
             filas[k].ventas =
                 SumaConjunto({i \in 1..Len(fs) : fs[i].vendedor = filas[k].vendedor},
                              [i \in 1..Len(fs) |-> fs[i].ventas])
       /\ \A k \in 1..(Len(filas) - 1) :
             ~Positivo(Resta(filas[k + 1].ventas, filas[k].ventas))
       /\ \A k, l \in 1..Len(filas) :
             (k < l /\ filas[k].ventas = filas[l].ventas)
                => PrimerIndice(filas[k].vendedor) < PrimerIndice(filas[l].vendedor)

\* three sellers of 2024, the one with the largest ventas met last and two
\* tied at 500: the largest comes first, the tied ones in the order met
\* (eva, Luis), which is not the order of their names
C11_Testigo ==
    /\ filtroAno = Num(2024)
    /\ Len(datosFiltrados) = 3
    /\ datosFiltrados[1].vendedor = Str(<<"e", "v", "a">>)
    /\ datosFiltrados[2].vendedor = Str(<<"L", "u", "i", "s">>)
    /\ datosFiltrados[3].vendedor = Str(<<"A", "n", "a">>)
    /\ Len(datosPorVendedor) = 3
    /\ datosPorVendedor[1].vendedor = Str(<<"A", "n", "a">>)
    /\ datosPorVendedor[1].ventas = Num(1000)
    /\ datosPorVendedor[2].vendedor = Str(<<"e", "v", "a">>)
    /\ datosPorVendedor[2].ventas = Num(500)
    /\ datosPorVendedor[3].vendedor = Str(<<"L", "u", "i", "s">>)
    /\ datosPorVendedor[3].ventas = Num(500)

\* the mean of a[i] over the i of I, 0 when I is empty
MediaConjunto(I, a) ==
    IF I = {} THEN Num(0) ELSE Div(SumaConjunto(I, a), Num(Cardinality(I)))

\* C12: promCumpl1 (promCumpl2) is the arithmetic mean of the stored
\* attainment1 (attainment2) over the filtered records whose attainment is
\* strictly positive, 0 when there is none; porcMeta1 (porcMeta2) is
\* totalVentas / totalMeta * 100 over all the filtered records (0 when the
\* summed goal is not positive), whatever the mean is.
C12_PromedioSoloPositivos ==
    LET fs == datosFiltrados
        todos == 1..Len(fs)
        a1 == [i \in todos |-> fs[i].cumplimiento1]
        a2 == [i \in todos |-> fs[i].cumplimiento2]
        tv == SumaConjunto(todos, [i \in todos |-> fs[i].ventas])
        tm1 == SumaConjunto(todos, [i \in todos |-> fs[i].meta1])
        tm2 == SumaConjunto(todos, [i \in todos |-> fs[i].meta2])
    IN /\ kpis.promCumpl1 = MediaConjunto({i \in todos : Positivo(a1[i])}, a1)
       /\ kpis.promCumpl2 = MediaConjunto({i \in todos : Positivo(a2[i])}, a2)
       /\ kpis.totalVentas = tv
       /\ kpis.porcMeta1 = IF tm1.n > 0 THEN Razon100(tv, tm1) ELSE Num(0)
       /\ kpis.porcMeta2 = IF tm2.n > 0 THEN Razon100(tv, tm2) ELSE Num(0)

\* three records of 2024 with attainment1 125, 50 and 0: the mean is
\* (125 + 50) / 2, not (125 + 50 + 0) / 3, and porcMeta1 is 2000/1800*100
C12_Testigo ==
    /\ filtroAno = Num(2024)
    /\ Len(datosFiltrados) = 3
    /\ datosFiltrados[1].cumplimiento1 = Num(125)
    /\ datosFiltrados[2].cumplimiento1 = Num(50)
    /\ datosFiltrados[3].cumplimiento1 = Num(0)
    /\ kpis.promCumpl1 = Frac(175, 2)
    /\ kpis.promCumpl1 /= Frac(175, 3)
    /\ kpis.porcMeta1 = Frac(1000, 9)
    /\ kpis.registros = Num(3)

\* C13: whenever no record passes the selectors (datos is empty, or the
\* combination of selector values matches no record), every field of kpis is
\* 0, registros included, datosPorPeriodo and datosPorVendedor are empty, and
\* error is null.
C13_FiltradoVacioTodoCero ==
    datosFiltrados = <<>> =>
        /\ \A c \in DOMAIN kpis : kpis[c] = Num(0)
        /\ kpis.registros = Num(0)
        /\ datosPorPeriodo = <<>>
        /\ datosPorVendedor = <<>>
        /\ error = <<>>

\* the year and the seller chosen each occur in datos, but in no record
\* together
C13_Testigo ==
    /\ datos /= <<>>
    /\ filtroAno /= Todos
    /\ filtroVendedor /= Todos
    /\ \E i \in 1..Len(datos) : datos[i].ano = filtroAno
    /\ \E i \in 1..Len(datos) : datos[i].vendedor = filtroVendedor
    /\ datosFiltrados = <<>>
    /\ kpis.registros = Num(0)
    /\ datosPorVendedor = <<>>

\* s without its first element
Cola(s) == SubSeq(s, 2, Len(s))

\* the month code of the raw object r, trimmed and in upper case
MesCrudo(r) ==
    LET mes == Coalesce(r.campos["mes"], r.campos["MES"])
    IN IF mes.t = "string" THEN ToUpperCase(Trim(mes.s)) ELSE <<>>

\* C14: each option list starts with "Todos"; after it the year list holds
\* the distinct years of datos in descending order, the seller list the
\* distinct non-empty seller names in ascending (code unit) order, and the
\* month list the distinct month codes of datos that are in MESES_ORDEN, in
\* the order of MESES_ORDEN.  A record whose month code is not in MESES_ORDEN
\* keeps its code and the code is in no option of the month list.
C14_ListasDeOpciones ==
    LET anios == aniosDisponibles(datos)
        vendedores == vendedoresDisponibles(datos)
        meses == mesesDisponibles(datos)
        todos == 1..Len(datos)
    IN /\ anios[1] = Todos /\ vendedores[1] = Todos /\ meses[1] = Todos
       /\ Elems(Cola(anios)) = {datos[i].ano : i \in todos}
       /\ \A k \in 2..(Len(anios) - 1) : Positivo(Resta(anios[k], anios[k + 1]))
       /\ Elems(Cola(vendedores)) = {datos[i].vendedor : i \in todos} \ {Str(<<>>)}
       /\ \A k \in 2..(Len(vendedores) - 1) :
             MenorCadena(vendedores[k].s, vendedores[k + 1].s)
       /\ Elems(Cola(meses)) =
             {datos[i].mesCod : i \in todos}
                \cap {Str(MESES_ORDEN[k]) : k \in 1..Len(MESES_ORDEN)}
       /\ \A k \in 2..(Len(meses) - 1) : IndiceMes(meses[k].s) < IndiceMes(meses[k + 1].s)
       /\ \A i \in todos :
             /\ datos[i].mesCod = Str(MesCrudo(json[1].data[i]))
             /\ ~EnMesesOrden(datos[i].mesCod.s) => datos[i].mesCod \notin Elems(meses)

\* years, sellers and months met in the order 2024, 2025; eva, blank, Ana;
\* FEB, XYZ, ENE: the lists are 2025, 2024; Ana, eva; ENE, FEB, and XYZ stays
\* on its record
C14_Testigo ==
    /\ filtroMes = Str(<<"F", "E", "B">>)
    /\ Len(datos) = 3
    /\ datos[1].vendedor = Str(<<"e", "v", "a">>)
    /\ datos[2].vendedor = Str(<<>>)
    /\ datos[2].mesCod = Str(<<"X", "Y", "Z">>)
    /\ datos[3].mesCod = Str(<<"E", "N", "E">>)
    /\ aniosDisponibles(datos) = <<Todos, Num(2025), Num(2024)>>
    /\ vendedoresDisponibles(datos) =
          <<Todos, Str(<<"A", "n", "a">>), Str(<<"e", "v", "a">>)>>
    /\ mesesDisponibles(datos) =
          <<Todos, Str(<<"E", "N", "E">>), Str(<<"F", "E", "B">>)>>

\* C15: in the collection a successful fetch produces, each record's id is
\* the number of the raw record's id when it has one and its position
\* (index + 1) when it has none, and no two records have the same id.
C15_IdsUnicos ==
    /\ \A i \in 1..Len(datos) :
          LET crudo == json[1].data[i].campos["id"]
          IN datos[i].id = IF crudo.t \in {"undefined", "null"} THEN Num(i)
                           ELSE ANumero(crudo)
    /\ \A i, j \in 1..Len(datos) : i /= j => datos[i].id /= datos[j].id

-----------------------------------------------------------------------------
(* The loading flag and the error annotation, checked under Spec *)

\* an activation of cargarDatos has been issued and has not resumed
EnVuelo == \E i \in 1..Len(llamadas) : llamadas[i].pc = "await"

\* C16: in every reachable state cargando is true exactly when some
\* activation of cargarDatos has been issued and has not yet resumed.
C16_CargandoSigueEnVuelo == cargando <=> EnVuelo

\* C17: once no activation is in flight, error is non-null exactly when the
\* activation that resumed last failed; and after an activation has resumed
\* as the last one with a success, no error message is left.
C17_ErrorReflejaUltima ==
    /\ ~EnVuelo => (error /= <<>> <=> UltimaFallo)
    /\ UltimaExito => error = <<>>

====
